---- MODULE Spec2Model ----
(***************************************************************************)
(* learned_optimization/tasks/fixed/conv.py: the conv-net task.            *)
(*                                                                         *)
(* Tensors are modelled by their shapes and by the symbolic expression     *)
(* that computes them; numbers of the normalizer are fixed-point (1/1000). *)
(***************************************************************************)
EXTENDS Integers, Sequences, FiniteSets, TLC

(* ------------------------------ bounds -------------------------------- *)
MaxLayers == 2
MaxClasses == 2
MaxBatches == 2
MaxLossSteps == 4

Widths == {1, 2}
Pools == {"avg", "max", "min"}
Keys == {0, 1}
Shapes == {<<2, 4, 4, 3>>, <<2, 3, 3, 1>>}
Contents == {0, 1}
Tasks == {1, 2}
Workers == {1, 2}
Callers == {1, 2}

None == [kind |-> "None"]

(* hidden_units: up to MaxLayers widths, alternating from either width *)
HiddenUnits(n, first) ==
  IF n = 0 THEN <<>> ELSE [i \in 1..n |-> IF i % 2 = 1 THEN first ELSE 3 - first]

HiddenUnitsChoices == {HiddenUnits(n, w) : n \in 0..MaxLayers, w \in Widths}
ClassChoices == 1..MaxClasses

(* A batch of the dataset: batch["image"] has the shape `shape`;          *)
(* `id` stands for the pixel and label values.                             *)
Batch(shape, id) == [shape |-> shape, id |-> id]

(* A Dataset Source: `train` yields MaxBatches batches of one shape;       *)
(* extra_info["num_classes"] is the declared class count.                  *)
Dataset(shape, salt, nc) ==
  [kind |-> "Datasets",
   train |-> [i \in 1..MaxBatches |-> Batch(shape, (salt + i) % 2)],
   extra_info |-> [num_classes |-> nc]]

DatasetChoices == {Dataset(sh, s, n) : sh \in Shapes, s \in Contents, n \in ClassChoices}

(* ------------------------- results of a call -------------------------- *)
Return(v) == [kind |-> "return", value |-> v]
Raise(e) == [kind |-> "raise", error |-> e]

(* ------------------ _cross_entropy_pool_loss (lines 33-63) ------------- *)
Min2(a, b) == IF a <= b THEN a ELSE b

(* [x] * n: the empty list when n <= 0 *)
ListTimes(x, n) == IF n <= 0 THEN <<>> ELSE [i \in 1..n |-> x]

(* a bug strides could have: every layer downsamples *)
strides_all_two(hidden_units) == ListTimes(2, Len(hidden_units))

(* strides = [2] + [1] * (len(hidden_units) - 1) *)
strides(hidden_units) == <<2>> \o ListTimes(1, Len(hidden_units) - 1)

(* zip(hidden_units, [3] * len(hidden_units), strides): as long as the    *)
(* shortest of the three.                                                   *)
zip3(a, b, c) ==
  [i \in 1..Min2(Len(a), Min2(Len(b), Len(c))) |-> [hs |-> a[i], ks |-> b[i], stride |-> c[i]]]

layers(hidden_units) ==
  zip3(hidden_units, ListTimes(3, Len(hidden_units)), strides(hidden_units))

(* hk.Conv2D(hs, ks, stride=stride)(net): padding SAME, NHWC. It creates  *)
(* the parameters w: (ks, ks, C, hs) and b: (hs).                          *)
CeilDiv(a, b) == (a + b - 1) \div b

Conv2D(net, l) ==
  [shape |-> <<net.shape[1], CeilDiv(net.shape[2], l.stride),
               CeilDiv(net.shape[3], l.stride), l.hs>>,
   ops |-> Append(net.ops, [op |-> "Conv2D", output_channels |-> l.hs,
                            kernel_shape |-> l.ks, stride |-> l.stride]),
   created |-> Append(net.created,
                      [module |-> "conv2_d", index |-> Len(net.created),
                       w |-> <<l.ks, l.ks, net.shape[4], l.hs>>, b |-> <<l.hs>>])]

activation_fn(net) ==
  [net EXCEPT !.ops = Append(@, [op |-> "activation_fn"])]

(* the loop of lines 46-48 *)
RECURSIVE ConvStack(_, _, _)
ConvStack(net, ls, i) ==
  IF i > Len(ls) THEN net
  ELSE ConvStack(activation_fn(Conv2D(net, ls[i])), ls, i + 1)

(* jnp.mean(net, [1, 2]) / jnp.max(net, [1, 2]) *)
Reduce12(net, how) ==
  [net EXCEPT !.shape = <<net.shape[1], net.shape[4]>>,
              !.ops = Append(@, [op |-> how, axes |-> <<1, 2>>])]

(* hk.Linear(num_classes)(net) on a rank-2 input *)
Linear(net, n) ==
  [shape |-> <<net.shape[1], n>>,
   ops |-> Append(net.ops, [op |-> "Linear", output_size |-> n]),
   created |-> Append(net.created,
                      [module |-> "linear", index |-> 0,
                       w |-> <<net.shape[2], n>>, b |-> <<n>>])]

(* lines 59-61: one_hot, softmax_cross_entropy, mean *)
MeanCrossEntropy(net, n) ==
  [shape |-> <<>>,
   ops |-> net.ops \o <<[op |-> "one_hot", num_classes |-> n],
                         [op |-> "softmax_cross_entropy"],
                         [op |-> "mean"]>>,
   created |-> net.created]

(* _fn(batch), the body of the function the builder returns; c is the     *)
(* closure (hidden_units, pool, num_classes).                              *)
fn_body(c, batch) ==
  LET net0 == [shape |-> batch.shape, ops |-> <<>>, created |-> <<>>]
      net1 == ConvStack(net0, layers(c.hidden_units), 1)
  IN  IF c.pool = "avg" THEN Return(MeanCrossEntropy(Linear(Reduce12(net1, "mean"), c.num_classes), c.num_classes))
      ELSE IF c.pool = "max" THEN Return(MeanCrossEntropy(Linear(Reduce12(net1, "max"), c.num_classes), c.num_classes))
      ELSE Raise("ValueError")

(* _cross_entropy_pool_loss(...): returns the closure _fn; nothing of     *)
(* _fn's body runs here.                                                   *)
cross_entropy_pool_loss(hidden_units, pool, num_classes) ==
  Return([kind |-> "fn", hidden_units |-> hidden_units, pool |-> pool,
          num_classes |-> num_classes])

(* ------------------------ hk.transform (line 71) ----------------------- *)
(* hk.transform(base_model_fn): the pair (init, apply) of the function;   *)
(* the function is not run.                                                *)
hk_transform(base_model_fn) == [kind |-> "Transformed", f |-> base_model_fn]

(* What a parameter structure declares: module names and shapes. *)
ParamSpec(created) ==
  [i \in 1..Len(created) |-> [module |-> created[i].module, index |-> created[i].index,
                               w |-> created[i].w, b |-> created[i].b]]

(* a bug mod_init could have: the draw depends on the batch's values *)
mod_init_data_dependent(mod, key, batch) ==
  LET r == fn_body(mod.f, batch)
  IN  IF r.kind = "raise" THEN r
      ELSE Return([i \in 1..Len(r.value.created) |->
                     [module |-> r.value.created[i].module,
                      index |-> r.value.created[i].index,
                      w |-> r.value.created[i].w,
                      b |-> r.value.created[i].b,
                      w_init |-> [rng |-> <<key, i, batch.id>>],
                      b_init |-> "zeros"]])

(* self._mod.init(key, batch): runs the function once on the batch; every *)
(* w is drawn from the key's stream (the i-th split), every b is zeros.    *)
mod_init(mod, key, batch) ==
  LET r == fn_body(mod.f, batch)
  IN  IF r.kind = "raise" THEN r
      ELSE Return([i \in 1..Len(r.value.created) |->
                     [module |-> r.value.created[i].module,
                      index |-> r.value.created[i].index,
                      w |-> r.value.created[i].w,
                      b |-> r.value.created[i].b,
                      w_init |-> [rng |-> <<key, i>>],
                      b_init |-> "zeros"]])

(* self._mod.apply(params, key, data): runs the function on data, every   *)
(* layer reading its parameters; a missing or mis-shaped one is an error. *)
(* No layer of _fn asks for a random key.                                  *)
mod_apply(mod, params, key, data) ==
  LET r == fn_body(mod.f, data)
  IN  IF r.kind = "raise" THEN r
      ELSE IF ParamSpec(params) # ParamSpec(r.value.created) THEN Raise("ValueError")
      ELSE Return([kind |-> "loss", ops |-> r.value.ops, params |-> params, data |-> data])

(* ------------------------- numbers, 1/1000 ---------------------------- *)
(* 1000 * ln(n), rounded down, n = 1..10 *)
LnMilli == <<0, 693, 1098, 1386, 1609, 1791, 1945, 2079, 2197, 2302>>

jnp_log(n) == LnMilli[n]

jnp_maximum(a, b) == IF a >= b THEN a ELSE b
jnp_minimum(a, b) == IF a <= b THEN a ELSE b

(* a bug jnp_clip's use could have: the lower clamp forgotten *)
jnp_clip_upper_only(a, a_min, a_max) == jnp_minimum(a_max, a)

(* jnp.clip(a, a_min, a_max) = minimum(a_max, maximum(a_min, a)) *)
jnp_clip(a, a_min, a_max) == jnp_minimum(a_max, jnp_maximum(a_min, a))

(* 1.5 * x *)
OneAndAHalf(x) == (15 * x) \div 10

LossValues ==
  {-500, 500, 500 * MaxLossSteps}
    \cup {OneAndAHalf(jnp_log(n)) + d : n \in ClassChoices, d \in {-1, 0, 1}}

(* ----------------------------- _ConvTask ------------------------------ *)
(* __init__ (lines 69-72) *)
ConvTask_new(base_model_fn, datasets) ==
  [kind |-> "_ConvTask", mod |-> hk_transform(base_model_fn), datasets |-> datasets]

(* a bug train_next could have: the stream restarts when it runs out *)
train_next_restarts(self, pos) ==
  IF pos < Len(self.datasets.train) THEN Return(self.datasets.train[pos + 1])
  ELSE Return(self.datasets.train[1])

(* next(self.datasets.train) with the iterator at position pos *)
train_next(self, pos) ==
  IF pos < Len(self.datasets.train) THEN Return(self.datasets.train[pos + 1])
  ELSE Raise("StopIteration")

(* init (lines 74-75): the argument next(...) is evaluated first. The      *)
(* result is the outcome and the iterator's new position.                  *)
ConvTask_init(self, pos, key) ==
  LET b == train_next(self, pos)
  IN  IF b.kind = "raise" THEN [out |-> b, pos |-> pos]
      ELSE [out |-> mod_init(self.mod, key, b.value), pos |-> pos + 1]

(* loss (lines 77-78) *)
ConvTask_loss(self, pos, params, key, data) ==
  [out |-> mod_apply(self.mod, params, key, data), pos |-> pos]

(* a bug normalizer could have: the class count of the model function *)
ConvTask_normalizer_model_classes(self, loss) ==
  Return(jnp_clip(loss, 0, OneAndAHalf(jnp_log(self.mod.f.num_classes))))

(* normalizer (lines 80-82) *)
ConvTask_normalizer(self, loss) ==
  Return(jnp_clip(loss, 0, OneAndAHalf(jnp_log(self.datasets.extra_info.num_classes))))

(* ------------------------------- state -------------------------------- *)
VARIABLES
  fn,        \* the function _cross_entropy_pool_loss returned, or None
  task,      \* task[t]: the _ConvTask instance t, or None
  trainPos,  \* trainPos[t]: batches drawn from task t's datasets.train
  ninit,     \* ninit[t]: init calls on task t that returned Parameters
  held,      \* held[c]: the Parameters caller c got from init, with the key
  ret,       \* the last call made and its outcome
  frame      \* frame[w]: the call thread w is in

vars == <<fn, task, trainPos, ninit, held, ret, frame>>

Idle == [pc |-> "idle"]
NoCall == [op |-> "none"]

Init ==
  /\ fn = None
  /\ task = [t \in Tasks |-> None]
  /\ trainPos = [t \in Tasks |-> 0]
  /\ ninit = [t \in Tasks |-> 0]
  /\ held = [c \in Callers |-> None]
  /\ ret = NoCall
  /\ frame = [w \in Workers |-> Idle]

(* base_model_fn = _cross_entropy_pool_loss(...) (lines 88-90, 98-100) *)
Build(hidden_units, pool, num_classes) ==
  /\ fn = None
  /\ LET r == cross_entropy_pool_loss(hidden_units, pool, num_classes)
     IN  /\ fn' = IF r.kind = "return" THEN r.value ELSE fn
         /\ ret' = [op |-> "build", pool |-> pool, out |-> [kind |-> r.kind]]
  /\ UNCHANGED <<task, trainPos, ninit, held, frame>>

(* _ConvTask(base_model_fn, datasets) (lines 92, 102) *)
Construct(t, datasets) ==
  /\ fn # None
  /\ task[t] = None
  /\ task' = [task EXCEPT ![t] = ConvTask_new(fn, datasets)]
  /\ trainPos' = [trainPos EXCEPT ![t] = 0]
  /\ ret' = [op |-> "construct", task |-> t, out |-> [kind |-> "return"]]
  /\ UNCHANGED <<fn, ninit, held, frame>>

(* caller c: params = task.init(key) *)
CallInit(c, t, key) ==
  /\ task[t] # None
  /\ LET r == ConvTask_init(task[t], trainPos[t], key)
     IN  /\ trainPos' = [trainPos EXCEPT ![t] = r.pos]
         /\ ninit' = IF r.out.kind = "return" THEN [ninit EXCEPT ![t] = @ + 1] ELSE ninit
         /\ held' = IF r.out.kind = "return"
                    THEN [held EXCEPT ![c] = [key |-> key, params |-> r.out.value]]
                    ELSE held
         /\ ret' = [op |-> "init", task |-> t, key |-> key, out |-> r.out]
  /\ UNCHANGED <<fn, task, frame>>

(* caller c: task.loss(params, key, data) on the Parameters it holds *)
CallLoss(c, t, key, data) ==
  /\ task[t] # None
  /\ held[c] # None
  /\ LET r == ConvTask_loss(task[t], trainPos[t], held[c].params, key, data)
     IN  /\ trainPos' = [trainPos EXCEPT ![t] = r.pos]
         /\ ret' = [op |-> "loss", task |-> t, params |-> held[c].params, key |-> key,
                    data |-> data, out |-> r.out]
  /\ UNCHANGED <<fn, task, ninit, held, frame>>

(* task.normalizer(loss) *)
CallNormalizer(t, x) ==
  /\ task[t] # None
  /\ ret' = [op |-> "normalizer", task |-> t, loss |-> x,
             out |-> ConvTask_normalizer(task[t], x)]
  /\ UNCHANGED <<fn, task, trainPos, ninit, held, frame>>

Batches == {Batch(sh, c) : sh \in Shapes, c \in Contents}

(* One task, one caller: built, constructed, then used. *)
Next ==
  \/ \E hu \in HiddenUnitsChoices, pool \in Pools, nc \in ClassChoices : Build(hu, pool, nc)
  \/ \E sh \in Shapes, nc \in ClassChoices : Construct(1, Dataset(sh, 0, nc))
  \/ \E key \in Keys : CallInit(1, 1, key)
  \/ \E key \in Keys, data \in Batches : CallLoss(1, 1, key, data)
  \/ \E x \in LossValues : CallNormalizer(1, x)

Spec == Init /\ [][Next]_vars

(* ------------------- two Task instances, side by side ------------------ *)
(* What a factory (lines 85-102) leaves: a function built, a task on it.  *)
Factory(hidden_units, pool, num_classes, datasets) ==
  ConvTask_new(cross_entropy_pool_loss(hidden_units, pool, num_classes).value, datasets)

InitTwo ==
  /\ \E pool \in Pools, nc \in ClassChoices :
       /\ fn = cross_entropy_pool_loss(<<2, 1>>, pool, nc).value
       /\ \E d1 \in DatasetChoices, d2 \in DatasetChoices :
            task = [t \in Tasks |-> IF t = 1 THEN Factory(<<2, 1>>, pool, nc, d1)
                                    ELSE Factory(<<2, 1>>, pool, nc, d2)]
  /\ trainPos = [t \in Tasks |-> 0]
  /\ ninit = [t \in Tasks |-> 0]
  /\ held = [c \in Callers |-> None]
  /\ ret = NoCall
  /\ frame = [w \in Workers |-> Idle]

NextTwo == \E t \in Tasks, key \in Keys : CallInit(t, t, key)

SpecTwo == InitTwo /\ [][NextTwo]_vars

(* ------------- calls from several threads, step by step --------------- *)
(* A thread is between calls (idle), inside one call of init, loss or     *)
(* normalizer on task 1, or holds the call's outcome (pc = "ret").         *)
InitConc ==
  /\ \E pool \in Pools, d \in DatasetChoices :
       /\ fn = cross_entropy_pool_loss(<<2, 1>>, pool, MaxClasses).value
       /\ task = [t \in Tasks |-> IF t = 1 THEN Factory(<<2, 1>>, pool, MaxClasses, d)
                                  ELSE None]
  /\ trainPos = [t \in Tasks |-> 0]
  /\ ninit = [t \in Tasks |-> 0]
  /\ held = [c \in Callers |-> None]
  /\ ret = NoCall
  /\ frame = [w \in Workers |-> Idle]

(* init, line 75: entered *)
InitEnter(w, key) ==
  /\ frame[w] = Idle
  /\ frame' = [frame EXCEPT ![w] = [pc |-> "init_next", op |-> "init", task |-> 1, key |-> key]]
  /\ UNCHANGED <<fn, task, trainPos, ninit, held, ret>>

(* init, line 75: next(self.datasets.train) *)
InitNext(w) ==
  /\ frame[w].pc = "init_next"
  /\ LET t == frame[w].task
         b == train_next(task[t], trainPos[t])
     IN  IF b.kind = "raise"
         THEN /\ frame' = [frame EXCEPT ![w] = [pc |-> "ret", op |-> "init", task |-> t,
                                                key |-> frame[w].key, out |-> b]]
              /\ UNCHANGED trainPos
         ELSE /\ frame' = [frame EXCEPT ![w] = [pc |-> "init_mod", op |-> "init", task |-> t,
                                                key |-> frame[w].key, batch |-> b.value]]
              /\ trainPos' = [trainPos EXCEPT ![t] = @ + 1]
  /\ UNCHANGED <<fn, task, ninit, held, ret>>

(* init, line 75: self._mod.init(key, batch) *)
InitMod(w) ==
  /\ frame[w].pc = "init_mod"
  /\ frame' = [frame EXCEPT ![w] =
                 [pc |-> "ret", op |-> "init", task |-> frame[w].task, key |-> frame[w].key,
                  out |-> mod_init(task[frame[w].task].mod, frame[w].key, frame[w].batch)]]
  /\ UNCHANGED <<fn, task, trainPos, ninit, held, ret>>

(* loss, line 78: entered with the Parameters the thread holds *)
LossEnter(w, key, data) ==
  /\ frame[w] = Idle
  /\ held[w] # None
  /\ frame' = [frame EXCEPT ![w] = [pc |-> "loss_apply", op |-> "loss", task |-> 1,
                                    params |-> held[w].params, key |-> key, data |-> data]]
  /\ UNCHANGED <<fn, task, trainPos, ninit, held, ret>>

(* a bug loss could have: it draws its batch from the train stream *)
LossApply_draws(w) ==
  /\ frame[w].pc = "loss_apply"
  /\ LET t == frame[w].task
         b == train_next(task[t], trainPos[t])
     IN  /\ frame' = [frame EXCEPT ![w] =
                        [pc |-> "ret", op |-> "loss", task |-> t,
                         params |-> frame[w].params, key |-> frame[w].key,
                         data |-> frame[w].data,
                         out |-> IF b.kind = "raise" THEN b
                                 ELSE mod_apply(task[t].mod, frame[w].params,
                                                frame[w].key, b.value)]]
         /\ trainPos' = [trainPos EXCEPT ![t] = IF b.kind = "raise" THEN @ ELSE @ + 1]
  /\ UNCHANGED <<fn, task, ninit, held, ret>>

(* a bug loss could have: it evaluates the batch the train stream is at *)
LossApply_peeks(w) ==
  /\ frame[w].pc = "loss_apply"
  /\ LET t == frame[w].task
         b == task[t].datasets.train[(trainPos[t] % Len(task[t].datasets.train)) + 1]
     IN  frame' = [frame EXCEPT ![w] =
                     [pc |-> "ret", op |-> "loss", task |-> t,
                      params |-> frame[w].params, key |-> frame[w].key,
                      data |-> frame[w].data,
                      out |-> mod_apply(task[t].mod, frame[w].params, frame[w].key, b)]]
  /\ UNCHANGED <<fn, task, trainPos, ninit, held, ret>>

(* loss, line 78: self._mod.apply(params, key, data) *)
LossApply(w) ==
  /\ frame[w].pc = "loss_apply"
  /\ frame' = [frame EXCEPT ![w] =
                 [pc |-> "ret", op |-> "loss", task |-> frame[w].task,
                  params |-> frame[w].params, key |-> frame[w].key, data |-> frame[w].data,
                  out |-> mod_apply(task[frame[w].task].mod, frame[w].params,
                                    frame[w].key, frame[w].data)]]
  /\ UNCHANGED <<fn, task, trainPos, ninit, held, ret>>

(* normalizer, line 81: entered *)
NormEnter(w, x) ==
  /\ frame[w] = Idle
  /\ frame' = [frame EXCEPT ![w] = [pc |-> "norm_info", op |-> "normalizer", task |-> 1,
                                    loss |-> x]]
  /\ UNCHANGED <<fn, task, trainPos, ninit, held, ret>>

(* normalizer, line 82: self.datasets.extra_info["num_classes"] *)
NormInfo(w) ==
  /\ frame[w].pc = "norm_info"
  /\ frame' = [frame EXCEPT ![w] =
                 [pc |-> "norm_clip", op |-> "normalizer", task |-> frame[w].task,
                  loss |-> frame[w].loss,
                  n |-> task[frame[w].task].datasets.extra_info.num_classes]]
  /\ UNCHANGED <<fn, task, trainPos, ninit, held, ret>>

(* normalizer, lines 81-82: jnp.clip(loss, 0, 1.5 * jnp.log(n)) *)
NormClip(w) ==
  /\ frame[w].pc = "norm_clip"
  /\ frame' = [frame EXCEPT ![w] =
                 [pc |-> "ret", op |-> "normalizer", task |-> frame[w].task,
                  loss |-> frame[w].loss,
                  out |-> Return(jnp_clip(frame[w].loss, 0, OneAndAHalf(jnp_log(frame[w].n))))]]
  /\ UNCHANGED <<fn, task, trainPos, ninit, held, ret>>

(* The call is over: the thread takes the outcome; Parameters that init   *)
(* returned become the thread's own.                                       *)
Ret(w) ==
  /\ frame[w].pc = "ret"
  /\ frame' = [frame EXCEPT ![w] = Idle]
  /\ IF frame[w].op = "init" /\ frame[w].out.kind = "return"
     THEN /\ held' = [held EXCEPT ![w] = [key |-> frame[w].key, params |-> frame[w].out.value]]
          /\ ninit' = [ninit EXCEPT ![frame[w].task] = @ + 1]
     ELSE UNCHANGED <<held, ninit>>
  /\ UNCHANGED <<fn, task, trainPos, ret>>

ConcLossValues == {-500, 500, 500 * MaxLossSteps}

NextConc ==
  \E w \in Workers :
    \/ \E key \in Keys : InitEnter(w, key)
    \/ InitNext(w)
    \/ InitMod(w)
    \/ \E key \in Keys, data \in Batches : LossEnter(w, key, data)
    \/ LossApply(w)
    \/ \E x \in ConcLossValues : NormEnter(w, x)
    \/ NormInfo(w)
    \/ NormClip(w)
    \/ Ret(w)

SpecConc == InitConc /\ [][NextConc]_vars

(* ======================= the claims, checked ========================== *)
(* 1.5 * ln(n) in 1/1000, as the claims state the ceiling *)
Ceiling(n) == (3 * LnMilli[n]) \div 2

TrainLen(t) == Len(task[t].datasets.train)

(* ----------------------------------------------------------------------- *)
(* C1 (as claimed): building the function succeeds exactly for pool "avg"  *)
(* or "max"; any other pool fails at the build, before any invocation.     *)
C1_PoolRejectedAtBuild ==
  ret.op = "build" => (ret.out.kind = "return" <=> ret.pool \in {"avg", "max"})

(* ----------------------------------------------------------------------- *)
(* C2 (as claimed): in every Task instance that exists, the model's output *)
(* width equals the dataset's num_classes (and so the class count of the   *)
(* normalizer's bound): a mismatch fails at construction.                  *)
C2_ClassCountsAgree ==
  \A t \in Tasks :
    task[t] # None => task[t].mod.f.num_classes = task[t].datasets.extra_info.num_classes

(* ----------------------------------------------------------------------- *)
(* C3: with C = 1.5 ln(num_classes), normalizer(x) is 0 for x < 0, x for   *)
(* 0 <= x <= C and C for x > C; it never raises, is non-decreasing and its *)
(* result lies in [0, C].                                                  *)
C3_NormalizerClamps ==
  \A t \in Tasks :
    task[t] # None =>
      LET C == Ceiling(task[t].datasets.extra_info.num_classes)
          N(x) == ConvTask_normalizer(task[t], x)
      IN  /\ (ret.op = "normalizer" /\ ret.task = t) =>
                /\ ret.out.kind = "return"
                /\ ret.loss < 0 => ret.out.value = 0
                /\ (0 <= ret.loss /\ ret.loss <= C) => ret.out.value = ret.loss
                /\ ret.loss > C => ret.out.value = C
          /\ \A x \in LossValues :
                /\ N(x).kind = "return"
                /\ 0 <= N(x).value /\ N(x).value <= C
                /\ \A y \in LossValues : x <= y => N(x).value <= N(y).value

(* a loss above a positive ceiling was clamped to it *)
C3_Witness ==
  /\ ret.op = "normalizer"
  /\ Ceiling(task[ret.task].datasets.extra_info.num_classes) > 0
  /\ ret.loss > Ceiling(task[ret.task].datasets.extra_info.num_classes)
  /\ ret.out = Return(Ceiling(task[ret.task].datasets.extra_info.num_classes))

(* ----------------------------------------------------------------------- *)
(* C4 (as claimed): the batches a Task has drawn from the train stream are *)
(* as many as the init calls that completed.                               *)
C4_DrawsEqualInits ==
  \A t \in Tasks : trainPos[t] = ninit[t]

(* ----------------------------------------------------------------------- *)
(* C5: an init call on a Task whose train stream has no batch left raises  *)
(* (StopIteration, out of next) to the caller: no Parameters come back and *)
(* the Task, its stream and the caller's Parameters are as before.         *)
C5_ExhaustedInitRaises ==
  [][\A t \in Tasks :
       (/\ task[t] # None
        /\ trainPos[t] >= TrainLen(t)
        /\ ret' # ret /\ ret'.op = "init" /\ ret'.task = t)
       => /\ ret'.out = Raise("StopIteration")
          /\ task' = task /\ trainPos' = trainPos /\ ninit' = ninit
          /\ held' = held /\ fn' = fn]_vars

(* init was called on the exhausted stream of a Task that had given        *)
(* Parameters before                                                       *)
C5_Witness ==
  /\ ret.op = "init"
  /\ ret.out = Raise("StopIteration")
  /\ trainPos[ret.task] = TrainLen(ret.task)
  /\ held[1] # None

(* ----------------------------------------------------------------------- *)
(* C9: the forward computation is len(hidden_units) convolutions in order, *)
(* the i-th of width hidden_units[i], kernel 3, stride 2 if first and 1    *)
(* otherwise, each followed at once by the activation; then the pooling    *)
(* and the linear layer.                                                   *)
C9_ConvStackShape ==
  (ret.op = "loss" /\ ret.out.kind = "return") =>
    LET ops == ret.out.value.ops
        hu == task[ret.task].mod.f.hidden_units
        n == Len(hu)
    IN  /\ Cardinality({i \in 1..Len(ops) : ops[i].op = "Conv2D"}) = n
        /\ Cardinality({i \in 1..Len(ops) : ops[i].op = "activation_fn"}) = n
        /\ Len(ops) >= 2 * n + 2
        /\ \A i \in 1..n :
             /\ ops[2 * i - 1] = [op |-> "Conv2D", output_channels |-> hu[i],
                                  kernel_shape |-> 3, stride |-> IF i = 1 THEN 2 ELSE 1]
             /\ ops[2 * i].op = "activation_fn"
        /\ ops[2 * n + 1].op \in {"mean", "max"}
        /\ ops[2 * n + 2].op = "Linear"

(* a loss was computed through a stack of MaxLayers (> 1) convolutions *)
C9_Witness ==
  /\ ret.op = "loss"
  /\ ret.out.kind = "return"
  /\ Len(task[ret.task].mod.f.hidden_units) = MaxLayers
  /\ MaxLayers > 1

(* ----------------------------------------------------------------------- *)
(* C10: the normalizer's ceiling is that of the dataset's num_classes at   *)
(* each call, whatever num_classes the model function was built with, and  *)
(* whether or not init was ever called: the result depends on the loss     *)
(* value and the dataset's num_classes alone.                              *)
C10_CeilingFromDataset ==
  \A t \in Tasks :
    task[t] # None =>
      LET nds == task[t].datasets.extra_info.num_classes
      IN  /\ (ret.op = "normalizer" /\ ret.task = t /\ ret.loss >= Ceiling(nds))
               => ret.out = Return(Ceiling(nds))
          /\ \A x \in LossValues, n \in ClassChoices :
               ConvTask_normalizer([task[t] EXCEPT !.mod.f.num_classes = n], x)
                 = ConvTask_normalizer(task[t], x)

(* normalizer answered on a Task never initialized whose model was built   *)
(* for another class count than its dataset's, with the dataset's ceiling  *)
C10_Witness ==
  /\ ret.op = "normalizer"
  /\ trainPos[ret.task] = 0 /\ held[1] = None
  /\ task[ret.task].mod.f.num_classes # task[ret.task].datasets.extra_info.num_classes
  /\ ret.loss > Ceiling(task[ret.task].datasets.extra_info.num_classes)
  /\ ret.loss < Ceiling(task[ret.task].mod.f.num_classes)
  /\ ret.out = Return(Ceiling(task[ret.task].datasets.extra_info.num_classes))

InLossOrNormalizer(f) == f.pc # "idle" /\ f.op \in {"loss", "normalizer"}

Alone(f) ==
  IF f.op = "loss"
  THEN ConvTask_loss(task[f.task], trainPos[f.task], f.params, f.key, f.data).out
  ELSE ConvTask_normalizer(task[f.task], f.loss)

(* ----------------------------------------------------------------------- *)
(* C6: while threads run loss and normalizer calls in any interleaving, no *)
(* step of such a call writes the Task, its train stream, the Parameters   *)
(* or another thread's call, and the call's outcome is the one the same    *)
(* call gives when it runs alone.                                          *)
C6_LossNormalizerInterleave ==
  [][\A w \in Workers :
       (frame'[w] # frame[w] /\ (InLossOrNormalizer(frame[w]) \/ InLossOrNormalizer(frame'[w])))
       => /\ fn' = fn /\ task' = task /\ trainPos' = trainPos
          /\ ninit' = ninit /\ held' = held
          /\ \A v \in Workers \ {w} : frame'[v] = frame[v]
          /\ (frame[w].pc # "ret" /\ frame'[w].pc = "ret") => frame'[w].out = Alone(frame[w])]_vars

(* a loss call has given its loss while another thread is inside normalizer *)
C6_Witness ==
  /\ frame[1].pc = "ret" /\ frame[1].op = "loss" /\ frame[1].out.kind = "return"
  /\ frame[2].pc = "norm_clip"

SameLossCall(f, g) ==
  /\ f.pc = "ret" /\ g.pc = "ret"
  /\ f.op = "loss" /\ g.op = "loss"
  /\ f.task = g.task /\ f.params = g.params /\ f.key = g.key /\ f.data = g.data

(* ----------------------------------------------------------------------- *)
(* C7: two loss invocations with identical arguments have identical        *)
(* outcomes, whatever was called in between and wherever the train stream  *)
(* is; the Parameters passed are not changed by the call.                  *)
C7_LossPure ==
  /\ \A w, v \in Workers : SameLossCall(frame[w], frame[v]) => frame[w].out = frame[v].out
  /\ \A w \in Workers :
       (frame[w].pc # "idle" /\ frame[w].op = "loss")
         => held[w] # None /\ held[w].params = frame[w].params

(* two threads hold the loss of the same arguments, each after its own     *)
(* init: the train stream moved between the two evaluations                *)
C7_Witness ==
  /\ SameLossCall(frame[1], frame[2])
  /\ frame[1].out.kind = "return"
  /\ ninit[1] = 2

FirstInit(t) == task[t] # None /\ held[t] # None /\ trainPos[t] = 1

(* ----------------------------------------------------------------------- *)
(* C8: init with the same key on two freshly constructed Tasks of the same *)
(* model function, whose datasets give batches of the same shape, returns  *)
(* identical Parameters.                                                   *)
C8_InitDeterministic ==
  \A t, u \in Tasks :
    (/\ FirstInit(t) /\ FirstInit(u)
     /\ task[t].mod = task[u].mod
     /\ task[t].datasets.train[1].shape = task[u].datasets.train[1].shape
     /\ held[t].key = held[u].key)
    => held[t].params = held[u].params

(* both Tasks initialized once with one key, their first batches of one    *)
(* shape and different values                                              *)
C8_Witness ==
  /\ FirstInit(1) /\ FirstInit(2)
  /\ held[1].key = held[2].key
  /\ task[1].datasets.train[1].shape = task[2].datasets.train[1].shape
  /\ task[1].datasets.train[1].id # task[2].datasets.train[1].id
  /\ held[1].params = held[2].params

====
